---- MODULE Spec2Model ----
(***************************************************************************)
(* A model of the yadict client library (src/src/lib.rs): constructing an  *)
(* Api from a token or from the environment, and the three calls get_langs,*)
(* lookup and lookup_def, each of which formats a URL, sends one blocking  *)
(* GET, reads and parses the body and projects the JSON document.          *)
(*                                                                         *)
(* Strings that the code only copies are TLA+ strings.  Strings the code   *)
(* concatenates into a URL are sequences of symbols, so that a reserved    *)
(* character inside an argument is visible in the result.                  *)
(***************************************************************************)
EXTENDS Integers, Sequences, FiniteSets, TLC

VARIABLES
    api,        \* Option<Api>: the constructed client, [token |-> ...]
    api_err,    \* Option<ApiError>: the error a failed constructor returned
    pc,         \* "new" | "failed" | "idle" | "wait" | "recv" | "done"
    var_arg,    \* Option: the `var` argument from_env was called with
    call,       \* the operation called last: "none" | "get_langs" | "lookup" | "lookup_def"
    text_arg,   \* Option: the `text` argument of the lookup call in progress
    inflight,   \* Option: the URL of the request on the wire
    sent,       \* requests sent by the call in progress (or by the last call)
    response,   \* Option: what the transport delivered to the last call
    result      \* Option<Result<..>>: what the last call returned

vars == <<api, api_err, var_arg, pc, call, text_arg, inflight, sent, response, result>>

(***************************************************************************)
(* Bounds of the model.                                                    *)
(***************************************************************************)
\* definitions plus translations plus stray elements in one lookup body
MaxWords == 3
\* elements of a getLangs array
MaxLangs == 3
\* symbols of a query text
MaxTextLen == 2

(***************************************************************************)
(* Option and Result.                                                      *)
(***************************************************************************)
None == [some |-> FALSE]
Some(x) == [some |-> TRUE, v |-> x]
Ok(x) == [ok |-> TRUE, v |-> x]
Err(e) == [ok |-> FALSE, e |-> e]

(***************************************************************************)
(* rustc_serialize::json::Json, and the accessors the code uses.           *)
(* An Object is a function from its keys to Json values.                   *)
(***************************************************************************)
JNull == [k |-> "Null"]
JString(s) == [k |-> "String", s |-> s]
JU64(n) == [k |-> "U64", n |-> n]
JI64(n) == [k |-> "I64", n |-> n]
JF64(lit) == [k |-> "F64", lit |-> lit]
JArray(a) == [k |-> "Array", a |-> a]
JObject(o) == [k |-> "Object", o |-> o]

EmptyObject == [key \in {} |-> JNull]

as_object(json) == IF json.k = "Object" THEN Some(json.o) ELSE None
as_array(json) == IF json.k = "Array" THEN Some(json.a) ELSE None
as_string(json) == IF json.k = "String" THEN Some(json.s) ELSE None
\* U64 as it is, a non-negative I64 cast, anything else (F64 included) None
as_u64(json) ==
    IF json.k = "U64" THEN Some(json.n)
    ELSE IF json.k = "I64" /\ json.n >= 0 THEN Some(json.n)
    ELSE None
object_get(object, key) ==
    IF key \in DOMAIN object THEN Some(object[key]) ELSE None

(***************************************************************************)
(* RequestError and ApiError.                                              *)
(***************************************************************************)
KeyInvalid == [kind |-> "KeyInvalid"]
KeyBlocked == [kind |-> "KeyBlocked"]
DailyLimitExceeded == [kind |-> "DailyLimitExceeded"]
TextTooLong == [kind |-> "TextTooLong"]
LangNotSupported == [kind |-> "LangNotSupported"]
InvalidDataFormat == [kind |-> "InvalidDataFormat"]
UnknownError(n) == [kind |-> "UnknownError", code |-> n]
HyperError == [kind |-> "HyperError"]
IOError == [kind |-> "IOError"]
ParseError == [kind |-> "ParseError"]
InvalidEnvironmentVar(e) == [kind |-> "InvalidEnvironmentVar", cause |-> e]

\* a plausible slip: two arms of the match exchanged
From_u64_swapped(e) ==
    CASE e = 401 -> KeyInvalid
      [] e = 402 -> DailyLimitExceeded
      [] e = 403 -> KeyBlocked
      [] e = 413 -> TextTooLong
      [] e = 501 -> LangNotSupported
      [] OTHER -> UnknownError(e)

\* impl From<u64> for RequestError
From_u64(e) ==
    CASE e = 401 -> KeyInvalid
      [] e = 402 -> KeyBlocked
      [] e = 403 -> DailyLimitExceeded
      [] e = 413 -> TextTooLong
      [] e = 501 -> LangNotSupported
      [] OTHER -> UnknownError(e)

(***************************************************************************)
(* What the transport can hand to one call.                                *)
(*   SendFailed          client.get(&url).send() returned an error         *)
(*   ReadFailed(status)  the body could not be read into a String          *)
(*   Body(status, b)     a body arrived; b is Malformed (no JSON document) *)
(*                       or Document(json)                                 *)
(***************************************************************************)
StatusOk == 200
Malformed == [wf |-> FALSE]
Document(json) == [wf |-> TRUE, doc |-> json]
SendFailed == [t |-> "SendFailed"]
ReadFailed(status) == [t |-> "ReadFailed", status |-> status]
Body(status, b) == [t |-> "Body", status |-> status, body |-> b]

\* Json::from_str
from_str(s) == IF s.wf THEN Ok(s.doc) ELSE Err(ParseError)

(***************************************************************************)
(* json_to_word: `text` must be a string; `pos` and `ts` are kept only     *)
(* when they are strings.                                                  *)
(***************************************************************************)
optional_string(object, key) ==
    LET f == object_get(object, key) IN
    IF f.some /\ f.v.k = "String" THEN Some(f.v.s) ELSE None

\* a plausible slip: `ts` read from the `pos` field
json_to_word_copied(object) ==
    LET text == optional_string(object, "text") IN
    IF ~text.some THEN Err(InvalidDataFormat)
    ELSE Ok([text |-> text.v,
             pos |-> optional_string(object, "pos"),
             ts |-> optional_string(object, "pos")])

json_to_word(object) ==
    LET text == optional_string(object, "text") IN
    IF ~text.some THEN Err(InvalidDataFormat)
    ELSE Ok([text |-> text.v,
             pos |-> optional_string(object, "pos"),
             ts |-> optional_string(object, "ts")])

(***************************************************************************)
(* fetch_json, after the request is sent: the outcome r of the transport   *)
(* is read, parsed and classified.                                         *)
(***************************************************************************)
\* a plausible slip: a missing code treated as code 0
fetch_json_lenient(r) ==
    IF r.t = "SendFailed" THEN Err(HyperError)
    ELSE IF r.t = "ReadFailed" THEN Err(IOError)
    ELSE LET json == from_str(r.body) IN
         IF ~json.ok THEN json
         ELSE IF r.status # StatusOk THEN
              LET object == as_object(json.v) IN
              IF ~object.some THEN Err(InvalidDataFormat)
              ELSE LET code_object == object_get(object.v, "code") IN
                   IF ~code_object.some THEN Err(From_u64(0))
                   ELSE LET code == as_u64(code_object.v) IN
                        IF ~code.some THEN Err(InvalidDataFormat)
                        ELSE Err(From_u64(code.v))
              ELSE Ok(json.v)

fetch_json(r) ==
    IF r.t = "SendFailed" THEN Err(HyperError)
    ELSE IF r.t = "ReadFailed" THEN Err(IOError)
    ELSE LET json == from_str(r.body) IN
         IF ~json.ok THEN json
         ELSE IF r.status # StatusOk THEN
              LET object == as_object(json.v) IN
              IF ~object.some THEN Err(InvalidDataFormat)
              ELSE LET code_object == object_get(object.v, "code") IN
                   IF ~code_object.some THEN Err(InvalidDataFormat)
                   ELSE LET code == as_u64(code_object.v) IN
                        IF ~code.some THEN Err(InvalidDataFormat)
                        ELSE Err(From_u64(code.v))
              ELSE Ok(json.v)

(***************************************************************************)
(* get_langs: the strings of the array, the other elements skipped.        *)
(***************************************************************************)
RECURSIVE get_langs_loop_break(_, _, _)
\* a plausible slip: the loop stops at the first element that is no string
get_langs_loop_break(array, i, acc) ==
    IF i > Len(array) THEN acc
    ELSE LET s == as_string(array[i]) IN
         IF s.some THEN get_langs_loop_break(array, i + 1, Append(acc, s.v))
         ELSE acc

RECURSIVE get_langs_loop(_, _, _)
get_langs_loop(array, i, acc) ==
    IF i > Len(array) THEN acc
    ELSE LET s == as_string(array[i]) IN
         get_langs_loop(array, i + 1, IF s.some THEN Append(acc, s.v) ELSE acc)

get_langs_result(r) ==
    LET json == fetch_json(r) IN
    IF ~json.ok THEN json
    ELSE LET array == as_array(json.v) IN
         IF ~array.some THEN Err(InvalidDataFormat)
         ELSE Ok(get_langs_loop(array.v, 1, <<>>))

(***************************************************************************)
(* lookup: the top-level object, cloned.                                   *)
(***************************************************************************)
lookup_result(r) ==
    LET json == fetch_json(r) IN
    IF ~json.ok THEN json
    ELSE LET object == as_object(json.v) IN
         IF ~object.some THEN Err(InvalidDataFormat)
         ELSE Ok(JObject(object.v))

(***************************************************************************)
(* lookup_def: the walk over `def` and each definition's `tr`.  The first  *)
(* deviation returns the error; the lists built so far are dropped.        *)
(***************************************************************************)
RECURSIVE trans_loop(_, _, _)
trans_loop(trans_arr, j, trans) ==
    IF j > Len(trans_arr) THEN Ok(trans)
    ELSE LET tr_obj == as_object(trans_arr[j]) IN
         IF ~tr_obj.some THEN Err(InvalidDataFormat)
         ELSE LET tr_word == json_to_word(tr_obj.v) IN
              IF ~tr_word.ok THEN tr_word
              ELSE trans_loop(trans_arr, j + 1, Append(trans, tr_word.v))

\* one iteration of the outer loop: Ok(Def) or the error
def_item(item_json) ==
    LET item == as_object(item_json) IN
    IF ~item.some THEN Err(InvalidDataFormat)
    ELSE LET word == json_to_word(item.v) IN
         IF ~word.ok THEN word
         ELSE LET trans_obj == object_get(item.v, "tr") IN
              IF ~trans_obj.some THEN Err(InvalidDataFormat)
              ELSE LET trans_arr == as_array(trans_obj.v) IN
                   IF ~trans_arr.some THEN Err(InvalidDataFormat)
                   ELSE LET trans == trans_loop(trans_arr.v, 1, <<>>) IN
                        IF ~trans.ok THEN trans
                        ELSE Ok([word |-> word.v, trans |-> trans.v])

RECURSIVE def_loop_skip(_, _, _)
\* a plausible slip: a malformed definition is skipped, as get_langs skips
def_loop_skip(def_arr, i, acc) ==
    IF i > Len(def_arr) THEN Ok(acc)
    ELSE LET def == def_item(def_arr[i]) IN
         def_loop_skip(def_arr, i + 1, IF def.ok THEN Append(acc, def.v) ELSE acc)

RECURSIVE def_loop(_, _, _)
def_loop(def_arr, i, acc) ==
    IF i > Len(def_arr) THEN Ok(acc)
    ELSE LET def == def_item(def_arr[i]) IN
         IF ~def.ok THEN def
         ELSE def_loop(def_arr, i + 1, Append(acc, def.v))

lookup_def_result(r) ==
    LET json == lookup_result(r) IN
    IF ~json.ok THEN json
    ELSE LET object == as_object(json.v) IN
         IF ~object.some THEN Err(InvalidDataFormat)
         ELSE LET def_obj == object_get(object.v, "def") IN
              IF ~def_obj.some THEN Err(InvalidDataFormat)
              ELSE LET def_arr == as_array(def_obj.v) IN
                   IF ~def_arr.some THEN Err(InvalidDataFormat)
                   ELSE def_loop(def_arr.v, 1, <<>>)

(***************************************************************************)
(* The inputs: the process environment, the arguments of the calls and     *)
(* the bodies the service may answer with.                                 *)
(***************************************************************************)
API_URL == "https://dictionary.yandex.net/api/v1/dicservice.json"

\* std::env::var on the process environment: a value, or one of the two
\* VarError cases
env_var(var) ==
    CASE var = "YANDEX_DICTIONARY_TOKEN" -> Ok(<<"dict.1.1.envkey">>)
      [] var = "YANDEX_DICTIONARY_RAW" -> Err("NotUnicode")
      [] OTHER -> Err("NotPresent")

VarNames == {"YANDEX_DICTIONARY_TOKEN", "YANDEX_DICTIONARY_RAW", "YANDEX_DICTIONARY_UNSET"}
Tokens == {<<"dict.1.1.argkey">>, <<"dict.1.1.other">>}
Langs == {<<"en-ru">>}
\* "%41" stands for the three characters of that escape
TextSymbols == {"rust", "&", "=", "#", " ", "%41"}
Texts == UNION {[1..n -> TextSymbols] : n \in 0..MaxTextLen}

Statuses == {StatusOk, 403, 500}

LangElems == {JString("en-ru"), JString("ru-en"), JNull}
LangBodies == {JArray(a) : a \in UNION {[1..n -> LangElems] : n \in 0..MaxLangs}}

CodeValues ==
    {JU64(n) : n \in {0, 200, 401, 402, 403, 404, 413, 501, 502}}
        \cup {JI64(0 - 1), JF64("403.5"), JString("403"), JNull}
ErrorBodies ==
    {JObject("code" :> c) : c \in CodeValues}
        \cup {JObject("code" :> c @@ "message" :> JString("Forbidden")) : c \in CodeValues}
        \cup {JObject("message" :> JString("Forbidden"))}

HeadObjects ==
    { "text" :> JString("rust") @@ "pos" :> JString("noun") @@ "ts" :> JString("rVst"),
      "text" :> JString("") @@ "ts" :> JNull,
      "pos" :> JString("noun"),
      "text" :> JNull }
TrElems ==
    { JObject("text" :> JString("rzhavchina")),
      JObject("text" :> JString("rzhavet") @@ "pos" :> JString("verb") @@ "ts" :> JNull),
      JObject("pos" :> JString("noun")),
      JNull }

\* the elements a `def` array may hold that count for w words
DefElems(w) ==
    IF w = 1
    THEN {JNull}
           \cup {JObject(h) : h \in HeadObjects}
           \cup {JObject(h @@ "tr" :> JNull) : h \in HeadObjects}
           \cup {JObject(h @@ "tr" :> JArray(<<>>)) : h \in HeadObjects}
    ELSE {JObject(h @@ "tr" :> JArray(a)) : h \in HeadObjects, a \in [1..(w - 1) -> TrElems]}

RECURSIVE DefSeqs(_)
\* the `def` arrays of at most n words
DefSeqs(n) ==
    {<<>>} \cup UNION { {<<e>> \o rest : e \in DefElems(w), rest \in DefSeqs(n - w)} : w \in 1..n }

LookupBodies ==
    {JObject("head" :> JObject(EmptyObject) @@ "def" :> JArray(d)) : d \in DefSeqs(MaxWords)}
MiscBodies ==
    {JNull, JString("en-ru"), JObject(EmptyObject),
     JObject("def" :> JNull), JObject("def" :> JObject(EmptyObject))}

OkBodies == LangBodies \cup ErrorBodies \cup LookupBodies \cup MiscBodies
ErrBodies == LangBodies \cup ErrorBodies \cup MiscBodies

Responses ==
    {SendFailed}
        \cup {ReadFailed(s) : s \in Statuses}
        \cup {Body(s, Malformed) : s \in Statuses}
        \cup {Body(StatusOk, Document(j)) : j \in OkBodies}
        \cup {Body(s, Document(j)) : s \in Statuses \ {StatusOk}, j \in ErrBodies}

(***************************************************************************)
(* The URLs the calls format.                                              *)
(***************************************************************************)
\* fetch_json: format!("{}/{}", API_URL, url)
fetch_url(url) == <<API_URL, "/">> \o url
\* get_langs: format!("getLangs?key={}", &self.token)
get_langs_url(token) == <<"getLangs", "?", "key", "=">> \o token
\* lookup: format!("lookup?key={}&lang={}&text={}", &self.token, lang, text)
lookup_url(token, lang, text) ==
    <<"lookup", "?", "key", "=">> \o token \o <<"&", "lang", "=">> \o lang
        \o <<"&", "text", "=">> \o text

(***************************************************************************)
(* The state machine.                                                      *)
(***************************************************************************)
Init ==
    /\ api = None
    /\ api_err = None
    /\ var_arg = None
    /\ pc = "new"
    /\ call = "none"
    /\ text_arg = None
    /\ inflight = None
    /\ sent = 0
    /\ response = None
    /\ result = None

from_token(token) ==
    /\ pc = "new"
    /\ api' = Some([token |-> token])
    /\ pc' = "idle"
    /\ UNCHANGED <<api_err, var_arg, call, text_arg, inflight, sent, response, result>>

\* a plausible slip: a variable that cannot be read gives an empty token
from_env_default(var) ==
    /\ pc = "new"
    /\ var_arg' = Some(var)
    /\ LET token == env_var(var) IN
       api' = Some([token |-> IF token.ok THEN token.v ELSE <<>>])
    /\ pc' = "idle"
    /\ UNCHANGED <<api_err, call, text_arg, inflight, sent, response, result>>

from_env(var) ==
    /\ pc = "new"
    /\ var_arg' = Some(var)
    /\ LET token == env_var(var) IN
       IF token.ok
       THEN /\ api' = Some([token |-> token.v])
            /\ pc' = "idle"
            /\ UNCHANGED api_err
       ELSE /\ api_err' = Some(InvalidEnvironmentVar(token.e))
            /\ pc' = "failed"
            /\ UNCHANGED api
    /\ UNCHANGED <<call, text_arg, inflight, sent, response, result>>

\* the part of a call up to the blocking send: the URL is formatted and the
\* one request is handed to the transport
Request(op, url, text) ==
    /\ pc = "idle"
    /\ call' = op
    /\ text_arg' = text
    /\ inflight' = Some(fetch_url(url))
    /\ sent' = 1
    /\ pc' = "wait"
    /\ UNCHANGED <<api, api_err, var_arg, response, result>>

get_langs == Request("get_langs", get_langs_url(api.v.token), None)
lookup(lang, text) == Request("lookup", lookup_url(api.v.token, lang, text), Some(text))
lookup_def(lang, text) == Request("lookup_def", lookup_url(api.v.token, lang, text), Some(text))

\* the transport takes the request off the caller's hands; the call blocks
\* and no longer reads its url or its text
Transmit ==
    /\ pc = "wait"
    /\ inflight' = None
    /\ text_arg' = None
    /\ pc' = "recv"
    /\ UNCHANGED <<api, api_err, var_arg, call, sent, response, result>>

\* what the call in progress makes of the transport's outcome
Project(op, r) ==
    CASE op = "get_langs" -> get_langs_result(r)
      [] op = "lookup" -> lookup_result(r)
      [] op = "lookup_def" -> lookup_def_result(r)

\* a plausible slip: a failed call is sent once more
Return_retry(r) ==
    /\ pc = "recv"
    /\ response' = Some(r)
    /\ LET res == Project(call, r) IN
       IF ~res.ok /\ sent < 2
       THEN /\ sent' = sent + 1
            /\ UNCHANGED <<result, pc>>
       ELSE /\ result' = Some(res)
            /\ pc' = "done"
            /\ UNCHANGED sent
    /\ UNCHANGED <<api, api_err, var_arg, call, text_arg, inflight>>

\* the rest of the call: the outcome r of the transport is projected and
\* returned to the caller
Return(r) ==
    /\ pc = "recv"
    /\ response' = Some(r)
    /\ result' = Some(Project(call, r))
    /\ pc' = "done"
    /\ UNCHANGED <<api, api_err, var_arg, call, text_arg, inflight, sent>>

\* the caller is done with the Result; the client is ready for the next call
Drop ==
    /\ pc = "done"
    /\ call' = "none"
    /\ sent' = 0
    /\ response' = None
    /\ result' = None
    /\ pc' = "idle"
    /\ UNCHANGED <<api, api_err, var_arg, text_arg, inflight>>

Next ==
    \/ \E token \in Tokens : from_token(token)
    \/ \E var \in VarNames : from_env(var)
    \/ get_langs
    \/ pc = "idle" /\ \E lang \in Langs, text \in Texts : lookup(lang, text)
    \/ pc = "idle" /\ \E lang \in Langs, text \in Texts : lookup_def(lang, text)
    \/ Transmit
    \/ pc = "recv" /\ \E r \in Responses : Return(r)
    \/ Drop

Spec == Init /\ [][Next]_vars

(***************************************************************************)
(* Vocabulary of the properties.                                           *)
(***************************************************************************)
Returned == pc = "done"
\* the last call received a body that parsed as JSON
GotDocument == Returned /\ response.v.t = "Body" /\ response.v.body.wf
Doc == response.v.body.doc
Status == response.v.status

IsInteger(json) == json.k \in {"U64", "I64"}
IsNumber(json) == json.k \in {"U64", "I64", "F64"}
HasCode(json) == json.k = "Object" /\ "code" \in DOMAIN json.o

\* the table of section 4.2, as the specification states it
TableError(n) ==
    CASE n = 401 -> KeyInvalid
      [] n = 402 -> KeyBlocked
      [] n = 403 -> DailyLimitExceeded
      [] n = 413 -> TextTooLong
      [] n = 501 -> LangNotSupported
      [] OTHER -> UnknownError(n)

(***************************************************************************)
(* C1                                                                      *)
(***************************************************************************)
\* C1, as stated: a status that is not OK with a body object holding an
\* integer `code` N fails with the table's error for N, UnknownError(N) for
\* every other integer N.
C1_AnyIntegerCode ==
    (GotDocument /\ Status # StatusOk /\ HasCode(Doc) /\ IsInteger(Doc.o["code"]))
        => result.v = Err(TableError(Doc.o["code"].n))

\* C1, amended: a status that is not OK with a body object holding a
\* non-negative integer `code` N fails with the table's error for N,
\* UnknownError(N) for every other such N, and never succeeds; a negative
\* integer `code` fails with InvalidDataFormat.
C1_ServiceCode ==
    (GotDocument /\ Status # StatusOk /\ HasCode(Doc) /\ IsInteger(Doc.o["code"]))
        => IF Doc.o["code"].n >= 0
           THEN result.v = Err(TableError(Doc.o["code"].n))
           ELSE result.v = Err(InvalidDataFormat)

C1_Witness ==
    /\ GotDocument /\ Status = 500 /\ call = "get_langs"
    /\ HasCode(Doc) /\ Doc.o["code"] = JU64(403)
    /\ result.v = Err(DailyLimitExceeded)

(***************************************************************************)
(* C2                                                                      *)
(***************************************************************************)
\* C2, as stated: a body object with the embedded code 403 makes the call
\* fail with DailyLimitExceeded whatever the HTTP status is, OK included.
C2_EmbeddedCodeAnyStatus ==
    (GotDocument /\ HasCode(Doc) /\ Doc.o["code"] = JU64(403))
        => result.v = Err(DailyLimitExceeded)

(***************************************************************************)
(* C3                                                                      *)
(***************************************************************************)
HasStringText(object) == "text" \in DOMAIN object /\ object["text"].k = "String"
HasArray(object, key) == key \in DOMAIN object /\ object[key].k = "Array"
BadTranslation(json) == json.k # "Object" \/ ~HasStringText(json.o)
BadDefinition(json) ==
    \/ json.k # "Object"
    \/ ~HasStringText(json.o)
    \/ ~HasArray(json.o, "tr")
    \/ \E j \in 1..Len(json.o["tr"].a) : BadTranslation(json.o["tr"].a[j])
BadLookup(json) ==
    \/ json.k # "Object"
    \/ ~HasArray(json.o, "def")
    \/ \E i \in 1..Len(json.o["def"].a) : BadDefinition(json.o["def"].a[i])

\* C3: a status-OK answer to lookup_def whose document deviates anywhere
\* (top level, `def`, a definition, its `text`, its `tr`, a translation, its
\* `text`) fails with InvalidDataFormat and returns no list of definitions.
C3_MalformedIsAnError ==
    (GotDocument /\ call = "lookup_def" /\ Status = StatusOk /\ BadLookup(Doc))
        => result.v = Err(InvalidDataFormat)

\* a sound definition followed by a malformed one
C3_Witness ==
    /\ GotDocument /\ call = "lookup_def" /\ Status = StatusOk
    /\ Doc.k = "Object" /\ HasArray(Doc.o, "def")
    /\ Len(Doc.o["def"].a) = 2
    /\ ~BadDefinition(Doc.o["def"].a[1])
    /\ BadDefinition(Doc.o["def"].a[2])
    /\ result.v = Err(InvalidDataFormat)

(***************************************************************************)
(* C4                                                                      *)
(***************************************************************************)
\* the word mirrors the object: same text, and each optional field present
\* exactly when Present says so, with the source's string
Mirrors(word, object, Present(_, _)) ==
    /\ word.text = object["text"].s
    /\ word.pos.some <=> Present(object, "pos")
    /\ word.ts.some <=> Present(object, "ts")
    /\ word.pos.some /\ object["pos"].k = "String" => word.pos.v = object["pos"].s
    /\ word.ts.some /\ object["ts"].k = "String" => word.ts.v = object["ts"].s

MirrorsAll(defs, def_arr, Present(_, _)) ==
    /\ Len(defs) = Len(def_arr)
    /\ \A i \in 1..Len(def_arr) :
         LET item == def_arr[i].o IN
         /\ Mirrors(defs[i].word, item, Present)
         /\ Len(defs[i].trans) = Len(item["tr"].a)
         /\ \A j \in 1..Len(item["tr"].a) :
              Mirrors(defs[i].trans[j], item["tr"].a[j].o, Present)

HasField(object, key) == key \in DOMAIN object
HasStringField(object, key) == key \in DOMAIN object /\ object[key].k = "String"

WellFormedLookup == GotDocument /\ call = "lookup_def" /\ Status = StatusOk /\ ~BadLookup(Doc)

\* C4, as stated: the list mirrors a well-formed source position by
\* position, `pos` and `ts` present exactly when the source object has the
\* field.
C4_MirrorsFieldPresence ==
    WellFormedLookup => result.v.ok /\ MirrorsAll(result.v.v, Doc.o["def"].a, HasField)

\* C4, amended: the list mirrors a well-formed source position by position
\* (same lengths, same order, same texts), `pos` and `ts` present exactly
\* when the source object has the field with a string value, and then with
\* that string; a `pos` or `ts` of another JSON type is absent in the result.
C4_MirrorsStringFields ==
    WellFormedLookup => result.v.ok /\ MirrorsAll(result.v.v, Doc.o["def"].a, HasStringField)

\* a definition with both optional fields and two translations
C4_Witness ==
    /\ WellFormedLookup
    /\ Len(Doc.o["def"].a) = 1
    /\ HasStringField(Doc.o["def"].a[1].o, "pos")
    /\ HasStringField(Doc.o["def"].a[1].o, "ts")
    /\ Len(Doc.o["def"].a[1].o["tr"].a) = 2
    /\ Doc.o["def"].a[1].o["tr"].a[1] # Doc.o["def"].a[1].o["tr"].a[2]
    /\ result.v.ok
    /\ Len(result.v.v[1].trans) = 2

(***************************************************************************)
(* C5                                                                      *)
(***************************************************************************)
IsString(json) == json.k = "String"
\* the string-typed elements of an array, in order
StringsOf(a) ==
    LET kept == SelectSeq(a, IsString) IN [i \in 1..Len(kept) |-> kept[i].s]

\* C5: a status-OK answer to get_langs that is a JSON array succeeds with
\* exactly the array's strings, in order, duplicates kept, the other
\* elements dropped.
C5_StringsOfTheArray ==
    (GotDocument /\ call = "get_langs" /\ Status = StatusOk /\ Doc.k = "Array")
        => result.v = Ok(StringsOf(Doc.a))

\* a duplicate on both sides of an element that is no string
C5_Witness ==
    /\ GotDocument /\ call = "get_langs" /\ Status = StatusOk
    /\ Doc = JArray(<<JString("en-ru"), JNull, JString("en-ru")>>)
    /\ result.v = Ok(<<"en-ru", "en-ru">>)

(***************************************************************************)
(* C6                                                                      *)
(***************************************************************************)
\* the place of the first c in seq, 0 when there is none
FirstIndex(seq, c) ==
    IF \E i \in 1..Len(seq) : seq[i] = c
    THEN CHOOSE i \in 1..Len(seq) : seq[i] = c /\ \A j \in 1..(i - 1) : seq[j] # c
    ELSE 0
Before(seq, c) ==
    IF FirstIndex(seq, c) = 0 THEN seq ELSE SubSeq(seq, 1, FirstIndex(seq, c) - 1)
After(seq, c) ==
    IF FirstIndex(seq, c) = 0 THEN <<>> ELSE SubSeq(seq, FirstIndex(seq, c) + 1, Len(seq))

RECURSIVE Split(_, _)
Split(seq, c) ==
    IF FirstIndex(seq, c) = 0 THEN <<seq>>
    ELSE <<Before(seq, c)>> \o Split(After(seq, c), c)

\* a URL as its receiver reads it: the query runs from the first "?" to the
\* first "#", its parameters are separated by "&", a name ends at the first
\* "=" and in a value the escape "%41" stands for "A"
QueryOf(url) == Before(After(url, "?"), "#")
Params(url) ==
    LET parts == Split(QueryOf(url), "&") IN
    [i \in 1..Len(parts) |->
        [name |-> Before(parts[i], "="), value |-> After(parts[i], "=")]]
Decode(value) == [i \in 1..Len(value) |-> IF value[i] = "%41" THEN "A" ELSE value[i]]

\* C6, as stated: the URL requested by lookup and lookup_def has exactly the
\* three parameters key, lang and text, and the value of `text` decodes
\* back to the text passed to the call.
C6_TextIsEncoded ==
    (pc = "wait" /\ call \in {"lookup", "lookup_def"}) =>
        LET p == Params(inflight.v) IN
        /\ Len(p) = 3
        /\ p[1].name = <<"key">>
        /\ p[2].name = <<"lang">>
        /\ p[3].name = <<"text">>
        /\ Decode(p[3].value) = text_arg.v

(***************************************************************************)
(* C7                                                                      *)
(***************************************************************************)
\* no object, or an object with no `code`, or with a `code` that is no number
LacksNumericCode(json) == ~HasCode(json) \/ ~IsNumber(json.o["code"])

\* C7, as stated: a body that is no JSON, or with a status that is not OK a
\* body that is no object or lacks a numeric `code`, fails with
\* InvalidDataFormat and with no other error.
C7_AlwaysInvalidDataFormat ==
    (Returned /\ response.v.t = "Body"
        /\ (~response.v.body.wf \/ (Status # StatusOk /\ LacksNumericCode(Doc))))
        => result.v = Err(InvalidDataFormat)

\* C7, amended: a body that is no JSON fails with ParseError, whatever the
\* status; a JSON body with a status that is not OK that is no object or
\* lacks a numeric `code` fails with InvalidDataFormat and no other error.
C7_ParseErrorOrInvalidDataFormat ==
    (Returned /\ response.v.t = "Body") =>
        /\ ~response.v.body.wf => result.v = Err(ParseError)
        /\ (response.v.body.wf /\ Status # StatusOk /\ LacksNumericCode(Doc))
              => result.v = Err(InvalidDataFormat)

C7_Witness ==
    /\ GotDocument /\ Status = 403 /\ call = "lookup"
    /\ Doc = JObject("message" :> JString("Forbidden"))
    /\ result.v = Err(InvalidDataFormat)

(***************************************************************************)
(* C8                                                                      *)
(***************************************************************************)
\* C8, as stated: every Definition of a successful lookup_def has a headword
\* whose text is not empty.
C8_HeadwordNotEmpty ==
    (Returned /\ call = "lookup_def" /\ result.v.ok) =>
        \A i \in 1..Len(result.v.v) : result.v.v[i].word.text # ""

(***************************************************************************)
(* C9                                                                      *)
(***************************************************************************)
\* C9: a call sends exactly one request, lookup_def included, and whatever
\* comes back, a failure too, is returned without another request.
C9_OneRequestPerCall ==
    /\ call = "none" => sent = 0
    /\ call # "none" => sent = 1
    /\ inflight.some => pc = "wait"
    /\ Returned => result.some /\ ~inflight.some

C9_Witness ==
    /\ Returned /\ call = "lookup_def"
    /\ response.v = SendFailed
    /\ result.v = Err(HyperError)
    /\ sent = 1

(***************************************************************************)
(* C10                                                                     *)
(***************************************************************************)
NoClientNoRequest == api = None /\ pc = "failed" /\ call = "none" /\ sent = 0 /\ inflight = None

\* C10, as stated: from_env with the variable missing fails with
\* InvalidEnvironmentVar, with no client and no request; with the variable
\* present the token is the variable's value, whatever happens later.
C10_PresentGivesToken ==
    var_arg.some =>
        LET token == env_var(var_arg.v) IN
        IF token = Err("NotPresent")
        THEN api_err = Some(InvalidEnvironmentVar("NotPresent")) /\ NoClientNoRequest
        ELSE api.some /\ token.ok /\ api.v.token = token.v

\* C10, amended: from_env with the variable missing, or present with a value
\* that is not valid Unicode, fails with InvalidEnvironmentVar, with no
\* client and no request; with the variable present and valid Unicode the
\* token is the variable's value, whatever happens later.
C10_ReadableGivesToken ==
    var_arg.some =>
        LET token == env_var(var_arg.v) IN
        IF ~token.ok
        THEN api_err = Some(InvalidEnvironmentVar(token.e)) /\ NoClientNoRequest
        ELSE api.some /\ api.v.token = token.v /\ api_err = None

C10_Witness ==
    /\ var_arg = Some("YANDEX_DICTIONARY_UNSET")
    /\ api_err = Some(InvalidEnvironmentVar("NotPresent"))
    /\ NoClientNoRequest

====
